---- MODULE Spec2Model ----
(***************************************************************************)
(* Model of the Tournament class (chess tournament pairing engine):        *)
(* player registry, round ledger, the Swiss / Round-Robin / Knockout       *)
(* pairing generators and the two result recorders.                        *)
(*                                                                         *)
(* Identifiers are sequences of one-character strings, so that trimming    *)
(* is computed.  null / undefined identifiers are the empty sequence       *)
(* (falsy, like the empty string).  Scores are kept in half points         *)
(* (score 1 is 2, score 0.5 is 1): the source adds 1, 0.5 or 0, which are  *)
(* exact in binary floating point.                                         *)
(***************************************************************************)
EXTENDS Integers, Sequences, FiniteSets, TLC

VARIABLES players, rounds, currentRound, pairingSystem,
          eliminatedPlayers, activePlayers, ret

vars == <<players, rounds, currentRound, pairingSystem,
          eliminatedPlayers, activePlayers, ret>>

\* the tournament state without the return value of the last call
state == <<players, rounds, currentRound, eliminatedPlayers, activePlayers>>

----------------------------------------------------------------------------
\* Bounds of the model

MaxPlayersRR == 5
MaxPlayersKO == 3
MaxPlayersSwiss == 3
MaxRoundsKO == 2
MaxRoundsSwiss == 2
MaxWins == 2
MaxEliminated == 3
MaxPlayersReg == 3
MaxRoundsBye == 4
MaxPlayersSeed == 4
MaxPlayersStand == 3
MaxRoundsStand == 1
MaxRoundsMixed == 1
MaxRoundsAll == 2

----------------------------------------------------------------------------
\* Values

NULL == <<>>
NoResult == ""
DefaultRating == 1500
Point == 2
HalfPoint == 1

Id(c) == <<c>>

IdUniverse == {Id("A"), Id("B"), Id("C"), Id("D"), Id("E"), Id("F")}

Results == {"1-0", "0-1", "0.5-0.5"}

\* a candidate of addPlayers: a bare string, or an object { id, rating }
Bare(s) == [isString |-> TRUE, id |-> s, hasRating |-> FALSE, rating |-> 0]
Rated(s, r) == [isString |-> FALSE, id |-> s, hasRating |-> TRUE, rating |-> r]
Unrated(s) == [isString |-> FALSE, id |-> s, hasRating |-> FALSE, rating |-> 0]

NoRet == [op |-> "new", ok |-> TRUE, err |-> "none", count |-> 0, winner |-> NULL]
Ret(op, ok, err, count, winner) ==
    [op |-> op, ok |-> ok, err |-> err, count |-> count, winner |-> winner]

----------------------------------------------------------------------------
\* Sequence helpers (Array.prototype.find / filter / map / sort)

Range(s) == {s[i] : i \in 1..Len(s)}

\* index of the first element satisfying Test, 0 when there is none
FindIndex(s, Test(_)) ==
    IF \E i \in 1..Len(s) : Test(s[i])
    THEN CHOOSE i \in 1..Len(s) : Test(s[i]) /\ \A j \in 1..(i - 1) : ~Test(s[j])
    ELSE 0

Filter(s, Test(_)) == SelectSeq(s, Test)

\* Array.prototype.sort with a consistent comparator; the sort is stable:
\* an element comes after every element that is before it, and after the
\* earlier elements that compare equal to it
StableSort(s, Before(_, _)) ==
    LET rank(i) == 1 + Cardinality({j \in 1..Len(s) :
                         \/ Before(s[j], s[i])
                         \/ (~Before(s[i], s[j]) /\ j < i)})
    IN  [k \in 1..Len(s) |-> s[CHOOSE i \in 1..Len(s) : rank(i) = k]]

----------------------------------------------------------------------------
\* String.prototype.trim on a sequence of characters

IsSpace(c) == c \in {" ", "\t", "\n"}

RECURSIVE TrimLeft(_)
TrimLeft(s) ==
    IF s = <<>> THEN <<>>
    ELSE IF IsSpace(Head(s)) THEN TrimLeft(Tail(s))
    ELSE s

RECURSIVE TrimRight(_)
TrimRight(s) ==
    IF s = <<>> THEN <<>>
    ELSE IF IsSpace(s[Len(s)]) THEN TrimRight(SubSeq(s, 1, Len(s) - 1))
    ELSE s

Trim(s) == TrimRight(TrimLeft(s))

----------------------------------------------------------------------------
\* Player registry

NewPlayer(id, rating) ==
    [id |-> id, score |-> 0, rating |-> rating, opponents |-> <<>>,
     wins |-> 0, losses |-> 0, draws |-> 0, bye |-> FALSE,
     eliminated |-> FALSE, lastResult |-> "null"]

normalize(item) ==
    IF item.isString
    THEN [id |-> Trim(item.id), rating |-> DefaultRating]
    ELSE [id |-> Trim(item.id),
          rating |-> IF item.hasRating /\ item.rating >= 0
                     THEN item.rating ELSE DefaultRating]

\* position of the player with this id in a registry, 0 when absent
PlayerIndex(ps, id) == FindIndex(ps, LAMBDA p : p.id = id)

\* [...this.players]: the player objects, referred to by their position in
\* the registry (objects are never removed or reordered, except by clear)
AllRefs(ps) == [i \in 1..Len(ps) |-> i]

\* the candidates that survive normalisation and the two filters, for a
\* tournament whose registry is ps
NewPlayersInto(ps, playerInput) ==
    LET normalized == [i \in 1..Len(playerInput) |-> normalize(playerInput[i])]
        nonEmpty == Filter(normalized, LAMBDA p : Len(p.id) > 0)
        fresh == Filter(nonEmpty, LAMBDA p : PlayerIndex(ps, p.id) = 0)
    IN  [i \in 1..Len(fresh) |-> NewPlayer(fresh[i].id, fresh[i].rating)]

NewPlayersOf(playerInput) == NewPlayersInto(players, playerInput)

addPlayers(playerInput) ==
    LET newPlayers == NewPlayersOf(playerInput)
    IN  /\ players' = players \o newPlayers
        /\ activePlayers' = AllRefs(players \o newPlayers)
        /\ ret' = Ret("addPlayers", TRUE, "none", Len(newPlayers), NULL)
        /\ UNCHANGED <<rounds, currentRound, pairingSystem, eliminatedPlayers>>

clearPlayers ==
    /\ players' = <<>>
    /\ rounds' = <<>>
    /\ currentRound' = 0
    /\ eliminatedPlayers' = <<>>
    /\ activePlayers' = <<>>
    /\ ret' = Ret("clearPlayers", TRUE, "none", 0, NULL)
    /\ UNCHANGED pairingSystem

----------------------------------------------------------------------------
\* Round ledger

SavedPairing(p1, p2, isBye, isKnockout) ==
    [player1Id |-> p1, player2Id |-> p2, bye |-> isBye, knockout |-> isKnockout,
     winnerId |-> NULL, resultRecorded |-> FALSE, result |-> NoResult]

\* the round saved under the number of the round before it
SavedRoundBefore(n, pairings) == [round |-> n - 1, pairings |-> pairings]

SavedRound(n, pairings) == [round |-> n, pairings |-> pairings]

\* rounds.find(r => r.round === round): index in the ledger, 0 when absent
RoundIndex(rs, round) == FindIndex(rs, LAMBDA r : r.round = round)

\* which return statement of a recorder gave up: the round lookup, the
\* pairing lookup, or the resultRecorded test
RejectReason(rs, ri, pi) ==
    IF ri = 0 THEN "RoundNotFound"
    ELSE IF pi = 0 THEN "PairingNotFound"
    ELSE "AlreadyRecorded"

\* byePlayer.bye = true, on the player object itself
SetBye(ps, ref) == [ps EXCEPT ![ref].bye = TRUE]

----------------------------------------------------------------------------
\* Round-Robin (circle method)

\* const totalRounds = n - 1, whatever the parity
RRTotalRoundsEvenOnly(n) == n - 1

\* const totalRounds = n % 2 === 1 ? n : n - 1
RRTotalRounds(n) == IF n % 2 = 1 THEN n ELSE n - 1

\* others.map((_, i) => others[(i + r) % len]), 0-based i
RRRotated(others, r) ==
    [i \in 1..Len(others) |-> others[(((i - 1) + r) % Len(others)) + 1]]

\* the bye of the odd schedule: rotated[len / 2], 0-based
RROddByeRef(refs, r) ==
    LET others == SubSeq(refs, 2, Len(refs))
    IN  RRRotated(others, r)[(Len(others) \div 2) + 1]

RROddPairings(ps, r) ==
    LET refs == AllRefs(ps)
        others == SubSeq(refs, 2, Len(refs))
        len == Len(others)
        rotated == RRRotated(others, r)
        first == <<SavedPairing(ps[refs[1]].id, ps[rotated[1]].id, FALSE, FALSE)>>
        middle == [i \in 1..((len \div 2) - 1) |->
                     SavedPairing(ps[rotated[i + 1]].id, ps[rotated[len - i + 1]].id,
                                  FALSE, FALSE)]
    IN  first \o middle \o <<SavedPairing(ps[RROddByeRef(refs, r)].id, NULL, TRUE, FALSE)>>

RREvenPairings(ps, r) ==
    LET refs == AllRefs(ps)
        others == SubSeq(refs, 2, Len(refs))
        rotated == <<refs[1]>> \o RRRotated(others, r)
    IN  [i \in 1..(Len(rotated) \div 2) |->
           SavedPairing(ps[rotated[i]].id, ps[rotated[Len(rotated) - i + 1]].id,
                        FALSE, FALSE)]

generateRoundRobinPairings ==
    LET n == Len(players)
        r == currentRound
    IN  IF currentRound >= RRTotalRounds(n)
        THEN /\ ret' = Ret("generatePairings", FALSE, "TournamentComplete", 0, NULL)
             /\ UNCHANGED <<players, rounds, currentRound, eliminatedPlayers, activePlayers>>
        ELSE /\ IF n % 2 = 1
                THEN /\ rounds' = Append(rounds, SavedRound(currentRound + 1, RROddPairings(players, r)))
                     /\ players' = SetBye(players, RROddByeRef(AllRefs(players), r))
                ELSE /\ rounds' = Append(rounds, SavedRound(currentRound + 1, RREvenPairings(players, r)))
                     /\ players' = players
             /\ currentRound' = currentRound + 1
             /\ ret' = Ret("generatePairings", TRUE, "none", 0, NULL)
             /\ UNCHANGED <<eliminatedPlayers, activePlayers>>

----------------------------------------------------------------------------
\* Knockout

\* (a, b) => a.rating - b.rating
ByRatingAsc(ps, a, b) == ps[a].rating < ps[b].rating

\* (a, b) => b.rating - a.rating
ByRatingDesc(ps, a, b) == ps[a].rating > ps[b].rating

\* every(p => p.resultRecorded): a bye counts as open until it is resolved
PairingSettledStrict(p) == p.resultRecorded

\* roundData.pairings.every(p => p.resultRecorded || p.bye)
PairingSettled(p) == p.resultRecorded \/ p.bye

areAllResultsRecorded(rs, round) ==
    LET ri == RoundIndex(rs, round)
    IN  IF ri = 0 THEN FALSE
        ELSE \A k \in 1..Len(rs[ri].pairings) : PairingSettled(rs[ri].pairings[k])

\* activePlayers.find(p => p.id === id): the reference found, 0 when absent
ActiveRefById(ps, act, id) ==
    LET k == FindIndex(act, LAMBDA ref : ps[ref].id = id)
    IN  IF k = 0 THEN 0 ELSE act[k]

\* the forEach of processByeMatches over the pairings k.. of the last round;
\* yields the registry and the ledger after it
RECURSIVE ProcessByeFrom(_, _, _, _)
ProcessByeFrom(k, ps, rs, act) ==
    LET last == Len(rs)
    IN  IF k > Len(rs[last].pairings) THEN [players |-> ps, rounds |-> rs]
        ELSE LET pairing == rs[last].pairings[k]
                 byeRef == ActiveRefById(ps, act, pairing.player1Id)
             IN  IF pairing.bye /\ ~pairing.resultRecorded /\ byeRef # 0
                 THEN ProcessByeFrom(k + 1,
                        [ps EXCEPT ![byeRef].wins = @ + 1, ![byeRef].score = @ + Point],
                        [rs EXCEPT ![last].pairings[k].winnerId = pairing.player1Id,
                                   ![last].pairings[k].resultRecorded = TRUE],
                        act)
                 ELSE ProcessByeFrom(k + 1, ps, rs, act)

processByeMatches(ps, rs, act) ==
    IF Len(rs) = 0 THEN [players |-> ps, rounds |-> rs]
    ELSE ProcessByeFrom(1, ps, rs, act)

\* the winners set collected from a round's pairings (truthy winnerId only)
WinnersOf(roundData) ==
    {roundData.pairings[k].winnerId : k \in 1..Len(roundData.pairings)} \ {NULL}

updateActivePlayersFromResults(ps, rs, act, round) ==
    LET ri == RoundIndex(rs, round)
    IN  IF ri = 0 THEN act
        ELSE Filter(act, LAMBDA ref : ps[ref].id \in WinnersOf(rs[ri]))

\* consecutive pairing of an even-length list of references: (1,2), (3,4), ...
ConsecutivePairings(ps, refs, isKnockout) ==
    [i \in 1..(Len(refs) \div 2) |->
       SavedPairing(ps[refs[2 * i - 1]].id, ps[refs[2 * i]].id, FALSE, isKnockout)]

\* a folded bracket: first against last, second against last but one, ...
SeededPairingsFolded(ps, sorted, isKnockout) ==
    LET m == Len(sorted) \div 2
    IN  [i \in 1..m |->
           SavedPairing(ps[sorted[i]].id, ps[sorted[2 * m + 1 - i]].id, FALSE, isKnockout)]
        \o (IF Len(sorted) % 2 = 1
            THEN <<SavedPairing(ps[sorted[Len(sorted)]].id, NULL, TRUE, isKnockout)>>
            ELSE <<>>)

\* the round built from a list of references already in pairing order:
\* the last one gets the bye when the count is odd
SeededPairings(ps, sorted, isKnockout) ==
    IF Len(sorted) % 2 = 1
    THEN ConsecutivePairings(ps, SubSeq(sorted, 1, Len(sorted) - 1), isKnockout)
         \o <<SavedPairing(ps[sorted[Len(sorted)]].id, NULL, TRUE, isKnockout)>>
    ELSE ConsecutivePairings(ps, sorted, isKnockout)

SeededByePlayers(ps, sorted) ==
    IF Len(sorted) % 2 = 1 THEN SetBye(ps, sorted[Len(sorted)]) ELSE ps

\* the part of generateKnockoutPairings after the bracket is known
KnockoutPairUp(ps, rs, act, elim) ==
    IF Len(act) < 2
    THEN /\ players' = ps
         /\ rounds' = rs
         /\ activePlayers' = act
         /\ eliminatedPlayers' = elim
         /\ UNCHANGED currentRound
         /\ IF Len(act) = 1
            THEN ret' = Ret("generatePairings", FALSE, "ChampionDecided", 0, ps[act[1]].id)
            ELSE ret' = Ret("generatePairings", FALSE, "EmptyBracket", 0, NULL)
    ELSE LET playersToPair == StableSort(act, LAMBDA a, b : ByRatingDesc(ps, a, b))
         IN  /\ players' = SeededByePlayers(ps, playersToPair)
             /\ rounds' = Append(rs, SavedRound(currentRound + 1,
                                               SeededPairings(ps, playersToPair, TRUE)))
             /\ activePlayers' = act
             /\ eliminatedPlayers' = elim
             /\ currentRound' = currentRound + 1
             /\ ret' = Ret("generatePairings", TRUE, "none", 0, NULL)

generateKnockoutPairings ==
    IF currentRound = 0
    THEN KnockoutPairUp(players, rounds, AllRefs(players), <<>>)
    ELSE IF ~areAllResultsRecorded(rounds, currentRound)
         THEN /\ ret' = Ret("generatePairings", FALSE, "IncompleteRound", 0, NULL)
              /\ UNCHANGED <<players, rounds, currentRound, eliminatedPlayers, activePlayers>>
         ELSE LET byes == processByeMatches(players, rounds, activePlayers)
                  act == updateActivePlayersFromResults(byes.players, byes.rounds,
                                                        activePlayers, currentRound)
              IN  KnockoutPairUp(byes.players, byes.rounds, act, eliminatedPlayers)

\* pairing lookup of recordKnockoutResult: index in the round, 0 when absent
KnockoutPairingMatches(p, player1Id, player2Id) ==
    /\ p.player1Id = player1Id
    /\ (p.player2Id = player2Id \/ (p.player2Id = NULL /\ player2Id = NULL))

\* the condition under which recordKnockoutResult gives up after the lookup
KnockoutRejected(pairings, pi) == pi = 0

\* winner.wins++; winner.score += 1; winner.lastResult = 'win'
CreditWinner(ps, winnerId) ==
    LET w == PlayerIndex(ps, winnerId)
    IN  IF w = 0 THEN ps
        ELSE [ps EXCEPT ![w].wins = @ + 1, ![w].score = @ + Point, ![w].lastResult = "win"]

\* loser.eliminated = true; loser.losses++; loser.lastResult = 'loss'
MarkLoser(ps, l) ==
    IF l = 0 THEN ps
    ELSE [ps EXCEPT ![l].eliminated = TRUE, ![l].losses = @ + 1, ![l].lastResult = "loss"]

recordKnockoutResult(round, player1Id, player2Id, winnerId) ==
    LET ri == RoundIndex(rounds, round)
        pi == IF ri = 0 THEN 0
              ELSE FindIndex(rounds[ri].pairings,
                             LAMBDA p : KnockoutPairingMatches(p, player1Id, player2Id))
    IN  IF ri = 0 \/ KnockoutRejected(IF ri = 0 THEN <<>> ELSE rounds[ri].pairings, pi)
        THEN /\ ret' = Ret("recordKnockoutResult", FALSE, RejectReason(rounds, ri, pi), 0, NULL)
             /\ UNCHANGED <<players, rounds, currentRound, pairingSystem,
                            eliminatedPlayers, activePlayers>>
        ELSE LET loserId == IF winnerId = player1Id THEN player2Id ELSE player1Id
                 l == IF loserId = NULL THEN 0 ELSE PlayerIndex(players, loserId)
             IN  /\ rounds' = [rounds EXCEPT ![ri].pairings[pi].winnerId = winnerId,
                                             ![ri].pairings[pi].resultRecorded = TRUE]
                 /\ players' = MarkLoser(CreditWinner(players, winnerId), l)
                 /\ eliminatedPlayers' = IF l = 0 THEN eliminatedPlayers
                                         ELSE Append(eliminatedPlayers, l)
                 /\ activePlayers' = IF l = 0 THEN activePlayers
                                      ELSE Filter(activePlayers,
                                                  LAMBDA ref : players[ref].id # loserId)
                 /\ ret' = Ret("recordKnockoutResult", TRUE, "none", 0, NULL)
                 /\ UNCHANGED <<currentRound, pairingSystem>>

----------------------------------------------------------------------------
\* Swiss

ByScoreThenRatingDesc(ps, a, b) ==
    \/ ps[a].score > ps[b].score
    \/ (ps[a].score = ps[b].score /\ ps[a].rating > ps[b].rating)

generateSwissRound1 ==
    LET sortedPlayers == StableSort(AllRefs(players),
                                    LAMBDA a, b : ByRatingDesc(players, a, b))
    IN  /\ players' = SeededByePlayers(players, sortedPlayers)
        /\ rounds' = Append(rounds, SavedRound(1, SeededPairings(players, sortedPlayers, FALSE)))
        /\ currentRound' = 1
        /\ ret' = Ret("generatePairings", TRUE, "none", 0, NULL)
        /\ UNCHANGED <<eliminatedPlayers, activePlayers>>

\* byePlayer = playersToPair.pop(), as round 1 does
SwissByePositionLast(ps, sorted) == Len(sorted)

\* the position (in the sorted list) of the bye recipient of round 2+:
\* the last one without a bye, else the last one
SwissByePosition(ps, sorted) ==
    LET free == {i \in 1..Len(sorted) : ~ps[sorted[i]].bye}
    IN  IF free # {} THEN CHOOSE i \in free : \A j \in free : j <= i
        ELSE Len(sorted)

RemoveAt(s, i) == SubSeq(s, 1, i - 1) \o SubSeq(s, i + 1, Len(s))

\* the groups keyed by the number of wins instead of the score
ScoreGroupsByWins(ps, refs) ==
    [w \in {ps[refs[i]].wins : i \in 1..Len(refs)} |->
        Filter(refs, LAMBDA ref : ps[ref].wins = w)]

\* scoreGroups: score -> the references with that score, in list order
ScoreGroupsOf(ps, refs) ==
    [sc \in {ps[refs[i]].score : i \in 1..Len(refs)} |->
        Filter(refs, LAMBDA ref : ps[ref].score = sc)]

\* Object.keys(scoreGroups).map(Number).sort((a, b) => b - a)
ScoreKeysOf(groups) ==
    StableSort(
      LET RECURSIVE AsSeq(_)
          AsSeq(S) == IF S = {} THEN <<>>
                      ELSE LET x == CHOOSE y \in S : \A z \in S : y <= z
                           IN  <<x>> \o AsSeq(S \ {x})
      IN  AsSeq(DOMAIN groups),
      LAMBDA a, b : a > b)

\* scoreKeys.find(s => s < score): position in scoreKeys, 0 when undefined
NextScorePosition(scoreKeys, score) == FindIndex(scoreKeys, LAMBDA sc : sc < score)

\* the loop over scoreKeys from position k on; yields the pairings
RECURSIVE SwissGroupLoop(_, _, _, _, _, _)
SwissGroupLoop(ps, scoreKeys, k, scoreGroups, used, pairings) ==
    IF k > Len(scoreKeys) THEN pairings
    ELSE LET score == scoreKeys[k]
             unused == Filter(scoreGroups[score], LAMBDA ref : ps[ref].id \notin used)
             group == StableSort(unused, LAMBDA a, b : ByRatingDesc(ps, a, b))
             paired == SubSeq(group, 1, 2 * (Len(group) \div 2))
             next == NextScorePosition(scoreKeys, score)
             floated == IF Len(group) % 2 = 1 /\ next # 0
                        THEN [scoreGroups EXCEPT ![scoreKeys[next]] =
                                                   Append(@, group[Len(group)])]
                        ELSE scoreGroups
         IN  SwissGroupLoop(ps, scoreKeys, k + 1, floated,
                            used \cup {ps[paired[i]].id : i \in 1..Len(paired)},
                            pairings \o ConsecutivePairings(ps, paired, FALSE))

generateSwissRound2Plus ==
    LET sortedPlayers == StableSort(AllRefs(players),
                                    LAMBDA a, b : ByScoreThenRatingDesc(players, a, b))
        odd == Len(sortedPlayers) % 2 = 1
        byePos == SwissByePosition(players, sortedPlayers)
        playersToPair == IF odd THEN RemoveAt(sortedPlayers, byePos) ELSE sortedPlayers
        scoreGroups == ScoreGroupsOf(players, playersToPair)
        scoreKeys == ScoreKeysOf(scoreGroups)
        pairings == SwissGroupLoop(players, scoreKeys, 1, scoreGroups, {}, <<>>)
        byePairing == IF odd
                      THEN <<SavedPairing(players[sortedPlayers[byePos]].id, NULL, TRUE, FALSE)>>
                      ELSE <<>>
    IN  /\ players' = IF odd THEN SetBye(players, sortedPlayers[byePos]) ELSE players
        /\ rounds' = Append(rounds, SavedRound(currentRound + 1, pairings \o byePairing))
        /\ currentRound' = currentRound + 1
        /\ ret' = Ret("generatePairings", TRUE, "none", 0, NULL)
        /\ UNCHANGED <<eliminatedPlayers, activePlayers>>

generateSwissPairings ==
    IF currentRound = 0 THEN generateSwissRound1 ELSE generateSwissRound2Plus

----------------------------------------------------------------------------
\* Result recorder (Swiss / Round-Robin)

\* result.split('-').map(Number), in half points
ParseResult(result) ==
    CASE result = "1-0" -> <<Point, 0>>
      [] result = "0-1" -> <<0, Point>>
      [] result = "0.5-0.5" -> <<HalfPoint, HalfPoint>>

\* p.opponents.push(id) without the includes test
AddOpponentAlways(opponents, id) == Append(opponents, id)

\* if (!p.opponents.includes(id)) p.opponents.push(id)
AddOpponent(opponents, id) ==
    IF id \in Range(opponents) THEN opponents ELSE Append(opponents, id)

recordResult(ps, player1Id, player2Id, result) ==
    LET p1 == PlayerIndex(ps, player1Id)
        p2 == PlayerIndex(ps, player2Id)
        score1 == ParseResult(result)[1]
        score2 == ParseResult(result)[2]
        scored == [[ps EXCEPT ![p1].score = @ + score1] EXCEPT ![p2].score = @ + score2]
        counted == IF score1 > score2
                   THEN [[scored EXCEPT ![p1].wins = @ + 1] EXCEPT ![p2].losses = @ + 1]
                   ELSE IF score2 > score1
                   THEN [[scored EXCEPT ![p2].wins = @ + 1] EXCEPT ![p1].losses = @ + 1]
                   ELSE [[scored EXCEPT ![p1].draws = @ + 1] EXCEPT ![p2].draws = @ + 1]
        tracked1 == [counted EXCEPT ![p1].opponents = AddOpponent(@, counted[p2].id)]
    IN  IF p1 = 0 \/ p2 = 0 THEN ps
        ELSE [tracked1 EXCEPT ![p2].opponents = AddOpponent(@, tracked1[p1].id)]

\* the lookup of recordRoundResult taking the two ids in either order
RoundPairingMatchesEitherOrder(p, player1Id, player2Id) ==
    \/ /\ p.player1Id = player1Id
       /\ (p.player2Id = player2Id \/ (p.bye /\ player2Id = NULL))
    \/ (p.player1Id = player2Id /\ p.player2Id = player1Id)

RoundPairingMatches(p, player1Id, player2Id) ==
    /\ p.player1Id = player1Id
    /\ (p.player2Id = player2Id \/ (p.bye /\ player2Id = NULL))

\* if (!pairing) return false: no resultRecorded test
RoundResultRejectedUnguarded(pairings, pi) == pi = 0

\* if (!pairing || pairing.resultRecorded) return false
RoundResultRejected(pairings, pi) == pi = 0 \/ pairings[pi].resultRecorded

\* the bye branch crediting the point without byePlayer.wins++
CreditByePointOnly(ps, player1Id) ==
    LET b == PlayerIndex(ps, player1Id)
    IN  IF b = 0 THEN ps
        ELSE [ps EXCEPT ![b].score = @ + Point]

\* the bye branch of recordRoundResult
CreditBye(ps, player1Id) ==
    LET b == PlayerIndex(ps, player1Id)
    IN  IF b = 0 THEN ps
        ELSE [ps EXCEPT ![b].score = @ + Point, ![b].wins = @ + 1]

\* recordRoundResult as a function of the registry and the ledger: what it
\* returns and what it leaves in players and rounds
RoundResultAfter(ps, rs, round, player1Id, player2Id, result) ==
    LET ri == RoundIndex(rs, round)
        pi == IF ri = 0 THEN 0
              ELSE FindIndex(rs[ri].pairings,
                             LAMBDA p : RoundPairingMatches(p, player1Id, player2Id))
    IN  IF ri = 0 \/ RoundResultRejected(IF ri = 0 THEN <<>> ELSE rs[ri].pairings, pi)
        THEN [ok |-> FALSE, err |-> RejectReason(rs, ri, pi), players |-> ps, rounds |-> rs]
        ELSE IF rs[ri].pairings[pi].bye
        THEN [ok |-> TRUE, err |-> "none",
              players |-> CreditBye(ps, player1Id),
              rounds |-> [rs EXCEPT ![ri].pairings[pi].resultRecorded = TRUE,
                                    ![ri].pairings[pi].result = "1-0"]]
        ELSE [ok |-> TRUE, err |-> "none",
              players |-> recordResult(ps, player1Id, player2Id, result),
              rounds |-> [rs EXCEPT ![ri].pairings[pi].resultRecorded = TRUE,
                                    ![ri].pairings[pi].result = result]]

recordRoundResult(round, player1Id, player2Id, result) ==
    LET after == RoundResultAfter(players, rounds, round, player1Id, player2Id, result)
    IN  /\ players' = after.players
        /\ rounds' = after.rounds
        /\ ret' = Ret("recordRoundResult", after.ok, after.err, 0, NULL)
        /\ UNCHANGED <<currentRound, pairingSystem, eliminatedPlayers, activePlayers>>

----------------------------------------------------------------------------
\* resetTournament

\* the forEach of resetTournament without player.bye = false
ResetPlayerKeepBye(p) ==
    [p EXCEPT !.score = 0, !.opponents = <<>>, !.wins = 0, !.losses = 0, !.draws = 0,
              !.eliminated = FALSE, !.lastResult = "null"]

ResetPlayer(p) ==
    [p EXCEPT !.score = 0, !.opponents = <<>>, !.wins = 0, !.losses = 0, !.draws = 0,
              !.bye = FALSE, !.eliminated = FALSE, !.lastResult = "null"]

resetTournament ==
    /\ rounds' = <<>>
    /\ currentRound' = 0
    /\ eliminatedPlayers' = <<>>
    /\ activePlayers' = AllRefs(players)
    /\ players' = [i \in 1..Len(players) |-> ResetPlayer(players[i])]
    /\ ret' = Ret("resetTournament", TRUE, "none", 0, NULL)
    /\ UNCHANGED pairingSystem

----------------------------------------------------------------------------
\* getStandings(sortBy)

\* the characters of the identifiers, in collation order
Alphabet == <<"A", "B", "C", "D", "E", "F", "G">>

CharRank(c) == CHOOSE i \in 1..Len(Alphabet) : Alphabet[i] = c

\* a.localeCompare(b) < 0 on identifiers written in the Alphabet
RECURSIVE LocaleBefore(_, _)
LocaleBefore(a, b) ==
    IF b = <<>> THEN FALSE
    ELSE IF a = <<>> THEN TRUE
    ELSE IF Head(a) # Head(b) THEN CharRank(Head(a)) < CharRank(Head(b))
    ELSE LocaleBefore(Tail(a), Tail(b))

SortKeys == {"score", "name", "rating", "other"}

\* the comparator of 'score' without the rating tie-break
StandingsBeforeScoreOnly(sortBy, a, b) ==
    IF sortBy = "score" THEN a.score > b.score
    ELSE IF sortBy = "name" THEN LocaleBefore(a.id, b.id)
    ELSE IF sortBy = "rating" THEN a.rating > b.rating
    ELSE FALSE

\* the comparator of getStandings is negative: a sorts before b
StandingsBefore(sortBy, a, b) ==
    IF sortBy = "score"
    THEN a.score > b.score \/ (a.score = b.score /\ a.rating > b.rating)
    ELSE IF sortBy = "name" THEN LocaleBefore(a.id, b.id)
    ELSE IF sortBy = "rating" THEN a.rating > b.rating
    ELSE FALSE

\* { rank: index, ...player }
RankedCopyFromZero(player, position) == [rank |-> position - 1] @@ player

\* { rank: index + 1, ...player }, position being index + 1
RankedCopy(player, position) == [rank |-> position] @@ player

StandingsOf(ps, sortBy) ==
    LET standings == StableSort(ps, LAMBDA a, b : StandingsBefore(sortBy, a, b))
    IN  [i \in 1..Len(standings) |-> RankedCopy(standings[i], i)]

getStandings(sortBy) ==
    /\ ret' = [op |-> "getStandings", ok |-> TRUE, err |-> "none", count |-> 0,
               winner |-> NULL, sortBy |-> sortBy,
               standings |-> StandingsOf(players, sortBy)]
    /\ UNCHANGED <<players, rounds, currentRound, pairingSystem,
                   eliminatedPlayers, activePlayers>>

----------------------------------------------------------------------------
\* generatePairings(system)

generatePairings(system) ==
    IF Len(players) < 2
    THEN /\ ret' = Ret("generatePairings", FALSE, "InsufficientPlayers", 0, NULL)
         /\ UNCHANGED <<players, rounds, currentRound, pairingSystem,
                        eliminatedPlayers, activePlayers>>
    ELSE /\ pairingSystem' = system
         /\ IF system = "knockout" THEN generateKnockoutPairings
            ELSE IF system = "swiss" THEN generateSwissPairings
            ELSE generateRoundRobinPairings

----------------------------------------------------------------------------
\* Initial state: the constructor

Init ==
    /\ players = <<>>
    /\ rounds = <<>>
    /\ currentRound = 0
    /\ pairingSystem = "swiss"
    /\ eliminatedPlayers = <<>>
    /\ activePlayers = <<>>
    /\ ret = NoRet

----------------------------------------------------------------------------
\* Round-Robin tournament over a registry fixed before the first round

RRCandidates == {Bare(id) : id \in IdUniverse}

RegisterRR ==
    /\ currentRound = 0
    /\ \E c \in RRCandidates :
         /\ addPlayers(<<c>>)
         /\ Len(players') <= MaxPlayersRR

GenerateRR == generatePairings("round-robin")

NextRR == RegisterRR \/ GenerateRR

SpecRR == Init /\ [][NextRR]_vars

----------------------------------------------------------------------------
\* Inputs of the recorders, <<round, player1Id, player2Id>>: every pairing of
\* the ledger as the result buttons pass it, the last round's first pairing
\* with its two players swapped (no pairing matches), and a round that is
\* not generated yet.  Every other input fails like one of the last two.

LedgerArgs ==
    {<<rounds[ri].round, rounds[ri].pairings[k].player1Id, rounds[ri].pairings[k].player2Id>> :
        <<ri, k>> \in {x \in (1..Len(rounds)) \X (1..6) : x[2] <= Len(rounds[x[1]].pairings)}}

SwappedArgs ==
    IF rounds = <<>> THEN {}
    ELSE LET p == rounds[Len(rounds)].pairings[1]
         IN  {<<rounds[Len(rounds)].round, p.player2Id, p.player1Id>>}

RecordArgs == LedgerArgs \cup SwappedArgs \cup {<<Len(rounds) + 1, Id("A"), Id("B")>>}

----------------------------------------------------------------------------
\* Knockout tournament: registration at any time; the winner reported for a
\* pairing is one of its own players, as the winner buttons report it

KOCandidates ==
    {Bare(Id("A")), Rated(<<" ", "B">>, 1600), Rated(Id("C"), 1500)}

KOIds == {Trim(c.id) : c \in KOCandidates}

WithinKOBounds ==
    /\ Len(players') <= MaxPlayersKO
    /\ currentRound' <= MaxRoundsKO
    /\ Len(eliminatedPlayers') <= MaxEliminated
    /\ \A i \in 1..Len(players') : players'[i].wins <= MaxWins

RegisterKO ==
    \E c \in KOCandidates : addPlayers(<<c>>) /\ WithinKOBounds

GenerateKO == generatePairings("knockout") /\ WithinKOBounds

RecordKO ==
    \E args \in RecordArgs : \E w \in {args[2], args[3]} \ {NULL} :
        recordKnockoutResult(args[1], args[2], args[3], w) /\ WithinKOBounds

Reset == resetTournament

Clear == clearPlayers

NextKO == RegisterKO \/ GenerateKO \/ RecordKO \/ Reset \/ Clear

SpecKO == Init /\ [][NextKO]_vars

----------------------------------------------------------------------------
\* Swiss tournament: registration at any time, the candidates arriving in
\* the order of the entry list (an earlier one may be entered again)

SwissCandidates ==
    <<Bare(Id("A")), Rated(<<" ", "B">>, 1600), Rated(Id("C"), 1500)>>

WithinSwissBounds ==
    /\ Len(players') <= MaxPlayersSwiss
    /\ currentRound' <= MaxRoundsSwiss

RegisterSwiss ==
    \E k \in 1..Len(SwissCandidates) :
        /\ k <= Len(players) + 1
        /\ addPlayers(<<SwissCandidates[k]>>)
        /\ WithinSwissBounds

GenerateSwiss == generatePairings("swiss") /\ WithinSwissBounds

RecordSwiss ==
    \E args \in RecordArgs, result \in Results :
        recordRoundResult(args[1], args[2], args[3], result)

NextSwiss == RegisterSwiss \/ GenerateSwiss \/ RecordSwiss \/ Reset \/ Clear

SpecSwiss == Init /\ [][NextSwiss]_vars

----------------------------------------------------------------------------
\* Swiss tournament over a registry fixed before the first round; results
\* are reported for the pairings of the current round

RegisterFixedSwiss ==
    /\ currentRound = 0
    /\ \E k \in 1..Len(SwissCandidates) :
         /\ k = Len(players) + 1
         /\ addPlayers(<<SwissCandidates[k]>>)

GenerateFixedSwiss == generatePairings("swiss") /\ currentRound' <= MaxRoundsBye

\* the pairings on display: those of the current round
CurrentRoundArgs == {args \in LedgerArgs : args[1] = currentRound}

RecordFixedSwiss ==
    \E args \in CurrentRoundArgs, result \in Results :
        recordRoundResult(args[1], args[2], args[3], result)

NextFixedSwiss == RegisterFixedSwiss \/ GenerateFixedSwiss \/ RecordFixedSwiss

SpecFixedSwiss == Init /\ [][NextFixedSwiss]_vars

----------------------------------------------------------------------------
\* The first Swiss round over registries of rated and unrated players entered
\* in any order

SeedCandidates ==
    {Bare(Id("A")), Bare(Id("B")), Bare(Id("C")),
     Rated(Id("D"), 2000), Rated(Id("E"), 1800), Rated(Id("F"), 1600),
     Rated(Id("G"), 1400)}

RegisterSeed ==
    /\ currentRound = 0
    /\ \E c \in SeedCandidates :
         /\ PlayerIndex(players, c.id) = 0
         /\ addPlayers(<<c>>)
         /\ Len(players') <= MaxPlayersSeed

GenerateFirstSwiss == currentRound = 0 /\ generatePairings("swiss")

NextSeed == RegisterSeed \/ GenerateFirstSwiss

SpecSeed == Init /\ [][NextSeed]_vars

----------------------------------------------------------------------------
\* Knockout tournament over five rated players entered in any order before
\* the first round; the winner buttons of the current round report results

BracketCandidates ==
    {Rated(Id("A"), 2200), Rated(Id("B"), 2000), Rated(Id("C"), 1800),
     Rated(Id("D"), 1600), Rated(Id("E"), 1400)}

RegisterBracket ==
    /\ currentRound = 0
    /\ \E c \in BracketCandidates :
         /\ PlayerIndex(players, c.id) = 0
         /\ addPlayers(<<c>>)

GenerateBracket == generatePairings("knockout")

\* the pairings of the current round that show winner buttons
OpenMatchArgs ==
    LET ri == RoundIndex(rounds, currentRound)
    IN  IF ri = 0 THEN {}
        ELSE {<<currentRound, p.player1Id, p.player2Id>> :
                 p \in {q \in Range(rounds[ri].pairings) : ~q.bye /\ ~q.resultRecorded}}

RecordBracket ==
    \E args \in OpenMatchArgs : \E w \in {args[2], args[3]} :
        recordKnockoutResult(args[1], args[2], args[3], w)

NextBracket == RegisterBracket \/ GenerateBracket \/ RecordBracket

SpecBracket == Init /\ [][NextBracket]_vars

----------------------------------------------------------------------------
\* Swiss tournament with the standings table: players entered in any order
\* before the first round, results of the current round, standings by any key

StandCandidates ==
    {Bare(Id("A")), Rated(Id("B"), 1600), Rated(<<"A", "B">>, 1600), Rated(Id("C"), 1500)}

RegisterStand ==
    /\ currentRound = 0
    /\ \E c \in StandCandidates :
         /\ PlayerIndex(players, c.id) = 0
         /\ addPlayers(<<c>>)
         /\ Len(players') <= MaxPlayersStand

GenerateStand == generatePairings("swiss") /\ currentRound' <= MaxRoundsStand

RecordStand ==
    \E args \in CurrentRoundArgs, result \in Results :
        recordRoundResult(args[1], args[2], args[3], result)

Standings == \E sortBy \in SortKeys : getStandings(sortBy)

NextStand == RegisterStand \/ GenerateStand \/ RecordStand \/ Standings

SpecStand == Init /\ [][NextStand]_vars

----------------------------------------------------------------------------
\* Both recorders on rounds of either system, over a registry fixed before
\* the first round; besides the open pairings of the current round the
\* recorders are given a swapped pairing, a round not generated yet, a match of the last
\* round without its second id and a bye of the last round with a second id

MismatchArgs ==
    IF rounds = <<>> THEN {}
    ELSE LET last == rounds[Len(rounds)]
         IN  {<<last.round, p.player1Id, IF p.bye THEN Id("A") ELSE NULL>> :
                 p \in Range(last.pairings)}

\* the pairings of the current round without a result
OpenArgs ==
    LET ri == RoundIndex(rounds, currentRound)
    IN  IF ri = 0 THEN {}
        ELSE {<<currentRound, p.player1Id, p.player2Id>> :
                 p \in {q \in Range(rounds[ri].pairings) : ~q.resultRecorded}}

ProbeArgs ==
    OpenArgs \cup SwappedArgs \cup MismatchArgs
        \cup {<<Len(rounds) + 1, Id("A"), Id("B")>>}

RegisterMixed ==
    /\ currentRound = 0
    /\ \E k \in 1..Len(SwissCandidates) :
         /\ k = Len(players) + 1
         /\ addPlayers(<<SwissCandidates[k]>>)

GenerateMixed ==
    \E system \in {"swiss", "knockout"} :
        generatePairings(system) /\ currentRound' <= MaxRoundsMixed

RecordRoundMixed ==
    \E args \in ProbeArgs, result \in Results :
        recordRoundResult(args[1], args[2], args[3], result)

RecordKnockoutMixed ==
    \E args \in ProbeArgs : \E w \in {args[2], args[3]} \ {NULL} :
        recordKnockoutResult(args[1], args[2], args[3], w)

NextMixed == RegisterMixed \/ GenerateMixed \/ RecordRoundMixed \/ RecordKnockoutMixed

SpecMixed == Init /\ [][NextMixed]_vars

----------------------------------------------------------------------------
\* Knockout tournament of up to five players entered before the first round,
\* in which a match of the current round may be reported again, with either
\* of its players as winner

RerecordEntry ==
    <<Rated(Id("A"), 2200), Rated(Id("B"), 2000), Rated(Id("C"), 1800),
      Rated(Id("D"), 1600), Rated(Id("E"), 1400)>>

WithinRerecordBounds ==
    /\ currentRound' <= MaxRoundsKO
    /\ Len(eliminatedPlayers') <= MaxEliminated
    /\ \A i \in 1..Len(players') : players'[i].wins <= MaxWins

RegisterRerecord ==
    /\ currentRound = 0
    /\ \E k \in 1..Len(RerecordEntry) :
         /\ k = Len(players) + 1
         /\ addPlayers(<<RerecordEntry[k]>>)

GenerateRerecord == generatePairings("knockout") /\ WithinRerecordBounds

RecordAgain ==
    \E args \in {a \in CurrentRoundArgs : a[3] # NULL} : \E w \in {args[2], args[3]} :
        recordKnockoutResult(args[1], args[2], args[3], w) /\ WithinRerecordBounds

NextRerecord == RegisterRerecord \/ GenerateRerecord \/ RecordAgain

SpecRerecord == Init /\ [][NextRerecord]_vars

----------------------------------------------------------------------------
\* A tournament run from the page: up to five players entered before the first
\* round, one pairing system chosen at the first round and kept, results
\* reported with the buttons the page shows for the current round (result
\* buttons in Swiss and Round-Robin, winner buttons in Knockout, none on a bye
\* or on a reported match), and reset

RoundsEntry ==
    <<Rated(Id("C"), 1600), Rated(Id("A"), 2000), Rated(Id("D"), 1400),
      Rated(Id("B"), 1800), Bare(Id("E"))>>

RegisterRounds ==
    /\ currentRound = 0
    /\ \E k \in 1..Len(RoundsEntry) :
         /\ k = Len(players) + 1
         /\ addPlayers(<<RoundsEntry[k]>>)

GenerateRounds ==
    \E system \in {"swiss", "round-robin", "knockout"} :
        /\ currentRound > 0 => system = pairingSystem
        /\ generatePairings(system)
        /\ currentRound' <= MaxRoundsAll

RecordMatchResult ==
    /\ pairingSystem # "knockout"
    /\ \E args \in OpenMatchArgs, result \in Results :
         recordRoundResult(args[1], args[2], args[3], result)

RecordWinner ==
    /\ pairingSystem = "knockout"
    /\ \E args \in OpenMatchArgs : \E w \in {args[2], args[3]} :
         recordKnockoutResult(args[1], args[2], args[3], w)

NextRounds ==
    RegisterRounds \/ GenerateRounds \/ RecordMatchResult \/ RecordWinner \/ Reset

SpecRounds == Init /\ [][NextRounds]_vars

----------------------------------------------------------------------------
\* A Swiss or Knockout tournament whose players box names one player twice:
\* the whole list is entered in one call, then rounds are generated and the
\* matches of the current round reported from the page

TwinLists ==
    {<<Bare(Id("A")), Bare(Id("A"))>>,
     <<Bare(Id("A")), Bare(Id("A")), Bare(Id("B")), Bare(Id("C"))>>,
     <<Bare(Id("A")), Bare(Id("B")), Bare(Id("A")), Bare(Id("C"))>>,
     <<Bare(Id("B")), Bare(Id("A")), Bare(Id("C")), Bare(Id("A"))>>,
     <<Bare(Id("A")), Bare(Id("B")), Bare(Id("A")), Bare(Id("B"))>>}

RegisterTwins ==
    /\ players = <<>>
    /\ \E playerInput \in TwinLists : addPlayers(playerInput)

GenerateTwins ==
    \E system \in {"swiss", "knockout"} :
        /\ currentRound > 0 => system = pairingSystem
        /\ generatePairings(system)
        /\ currentRound' <= MaxRoundsAll

RecordTwins ==
    /\ pairingSystem # "knockout"
    /\ \E args \in OpenMatchArgs, result \in Results :
         recordRoundResult(args[1], args[2], args[3], result)

\* with two pairings of the same two ids the winner buttons of the second
\* keep reporting the first, so the wins are capped
RecordTwinWinner ==
    /\ pairingSystem = "knockout"
    /\ \E args \in OpenMatchArgs : \E w \in {args[2], args[3]} :
         /\ recordKnockoutResult(args[1], args[2], args[3], w)
         /\ \A i \in 1..Len(players') : players'[i].wins <= MaxWins

NextTwins == RegisterTwins \/ GenerateTwins \/ RecordTwins \/ RecordTwinWinner

SpecTwins == Init /\ [][NextTwins]_vars

----------------------------------------------------------------------------
\* Knockout tournament of up to five players entered before the first round,
\* in which each pairing of the current round, bye included, is reported once
\* through recordKnockoutResult with any identifier as winner: one of the
\* registered players or an unknown name

WinnerIds == {players[i].id : i \in 1..Len(players)} \cup {Id("Z")}

RegisterOutsider ==
    /\ currentRound = 0
    /\ \E k \in 1..Len(RerecordEntry) :
         /\ k = Len(players) + 1
         /\ addPlayers(<<RerecordEntry[k]>>)

GenerateOutsider == generatePairings("knockout") /\ currentRound' <= MaxRoundsKO

RecordAnyWinner ==
    \E args \in OpenArgs, w \in WinnerIds :
        recordKnockoutResult(args[1], args[2], args[3], w)

NextOutsider == RegisterOutsider \/ GenerateOutsider \/ RecordAnyWinner

SpecOutsider == Init /\ [][NextOutsider]_vars

----------------------------------------------------------------------------
\* A tournament of up to three players entered before the first round whose
\* rounds are generated under any of the three systems, changed at will; the
\* pairings of the current round are reported once, with the recorder of the
\* system that generated them: results for Swiss and Round-Robin matches and
\* byes, winners for Knockout matches

RegisterAny ==
    /\ currentRound = 0
    /\ \E k \in 1..Len(SwissCandidates) :
         /\ k = Len(players) + 1
         /\ addPlayers(<<SwissCandidates[k]>>)

GenerateAny ==
    \E system \in {"swiss", "round-robin", "knockout"} :
        generatePairings(system) /\ currentRound' <= MaxRoundsAll

RecordRoundAny ==
    /\ pairingSystem # "knockout"
    /\ \E args \in OpenArgs, result \in Results :
         recordRoundResult(args[1], args[2], args[3], result)

RecordKnockoutAny ==
    /\ pairingSystem = "knockout"
    /\ \E args \in OpenMatchArgs : \E w \in {args[2], args[3]} :
         recordKnockoutResult(args[1], args[2], args[3], w)

NextAny == RegisterAny \/ GenerateAny \/ RecordRoundAny \/ RecordKnockoutAny \/ Reset

SpecAny == Init /\ [][NextAny]_vars

----------------------------------------------------------------------------
\* Registration alone: candidate lists of one or two entries, as strings or
\* objects, with surrounding blanks, a blank entry and repeated identifiers

RegCandidates ==
    {Bare(Id("A")), Bare(<<" ", "A">>), Rated(Id("B"), 1600),
     Unrated(<<"B", " ">>), Bare(<<" ">>), Rated(Id("C"), 1400)}

RegisterList ==
    \E a \in RegCandidates, b \in RegCandidates :
        \E playerInput \in {<<a>>, <<a, b>>} :
            /\ addPlayers(playerInput)
            /\ Len(players') <= MaxPlayersReg

NextReg == RegisterList \/ Clear

SpecReg == Init /\ [][NextReg]_vars

----------------------------------------------------------------------------
\* Observations used by the properties

RegisteredIds == {players[i].id : i \in 1..Len(players)}

\* the pairings of the ledger, as <<position of the round, position in it>>
LedgerPairings ==
    {x \in (1..Len(rounds)) \X (1..6) : x[2] <= Len(rounds[x[1]].pairings)}

PairingAt(x) == rounds[x[1]].pairings[x[2]]

\* the non-bye pairings of the ledger that put a and b together
MeetingsOf(a, b) ==
    {x \in LedgerPairings :
        /\ ~PairingAt(x).bye
        /\ {PairingAt(x).player1Id, PairingAt(x).player2Id} = {a, b}}

ByesOf(a) ==
    {x \in LedgerPairings : PairingAt(x).bye /\ PairingAt(x).player1Id = a}

\* the player seated at position i of a round: player1 and player2 of the
\* first pairing are seats 1 and 2, those of the second 3 and 4, ...
SeatOf(pairings, i) ==
    IF i % 2 = 1 THEN pairings[(i + 1) \div 2].player1Id
    ELSE pairings[(i + 1) \div 2].player2Id

\* the ratings of a round's seats, in seat order (n players seated)
SeatRatings(ps, pairings, n) ==
    [i \in 1..n |-> ps[PlayerIndex(ps, SeatOf(pairings, i))].rating]

\* the state <<players, rounds, currentRound, eliminatedPlayers,
\* activePlayers>> of new Tournament() after one addPlayers call that
\* registers the ids and ratings of ps, in their order
FreshlyRegistered(ps) ==
    LET playerInput == [i \in 1..Len(ps) |-> Rated(ps[i].id, ps[i].rating)]
        registry == NewPlayersInto(<<>>, playerInput)
    IN  <<registry, <<>>, 0, <<>>, AllRefs(registry)>>

\* the ledger has no round of this number, or that round has no pairing
\* with these two ids in this order (a bye taking a missing second id)
NoSuchPairing(round, player1Id, player2Id) ==
    \A ri \in 1..Len(rounds) :
        rounds[ri].round = round =>
            \A k \in 1..Len(rounds[ri].pairings) :
                LET p == rounds[ri].pairings[k]
                IN  ~(/\ p.player1Id = player1Id
                      /\ (p.player2Id = player2Id \/ (p.bye /\ player2Id = NULL)))

\* the ids recorded as winnerId in the pairings of round number n of a ledger
WinnerIdsOfRound(rs, n) ==
    {rs[x[1]].pairings[x[2]].winnerId :
        x \in {y \in (1..Len(rs)) \X (1..6) :
                  /\ rs[y[1]].round = n
                  /\ y[2] <= Len(rs[y[1]].pairings)}} \ {NULL}

\* the recorded non-bye pairings of the ledger that id plays in
RecordedMatchesOf(id) ==
    {x \in LedgerPairings :
        /\ ~PairingAt(x).bye
        /\ PairingAt(x).resultRecorded
        /\ id \in {PairingAt(x).player1Id, PairingAt(x).player2Id}}

\* the resolved bye pairings of id
ResolvedByesOf(id) == {x \in ByesOf(id) : PairingAt(x).resultRecorded}

\* the ids seated in a round: player1 of every pairing, player2 of every
\* pairing that is not a bye
SeatedIds(pairings) ==
    {pairings[k].player1Id : k \in 1..Len(pairings)}
        \cup {pairings[k].player2Id : k \in {j \in 1..Len(pairings) : ~pairings[j].bye}}

\* the number of seats of a round: two per pairing, one per bye
SeatCount(pairings) ==
    2 * Len(pairings) - Cardinality({k \in 1..Len(pairings) : pairings[k].bye})

\* the number of seats of a round taken by id
SeatsOf(pairings, id) ==
    Cardinality({k \in 1..Len(pairings) : pairings[k].player1Id = id})
        + Cardinality({k \in 1..Len(pairings) :
                          ~pairings[k].bye /\ pairings[k].player2Id = id})

\* a round that seats each of the covered players (given by their ids, one
\* entry per player) exactly once: every id takes as many seats as players
\* hold it, so that a player is neither left out, nor in two pairings, nor on
\* both sides of one; every match has two players, and there is a single
\* bye, in last position, exactly when the number of players is odd
RoundSeatsOnce(pairings, covered) ==
    /\ SeatCount(pairings) = Len(covered)
    /\ \A id \in SeatedIds(pairings) \cup Range(covered) :
         SeatsOf(pairings, id) = Cardinality({i \in 1..Len(covered) : covered[i] = id})
    /\ \A k \in 1..Len(pairings) :
         /\ pairings[k].player1Id # NULL
         /\ pairings[k].bye <=> pairings[k].player2Id = NULL
         /\ pairings[k].bye => k = Len(pairings)
    /\ (Len(covered) % 2 = 1) <=> (\E k \in 1..Len(pairings) : pairings[k].bye)

\* score and rating of the registered player found under id
ScoreOfId(ps, id) == ps[PlayerIndex(ps, id)].score

RatingOfId(ps, id) == ps[PlayerIndex(ps, id)].rating

\* the positions of the non-bye pairings of a round
MatchesIn(pairings) == {k \in 1..Len(pairings) : ~pairings[k].bye}

\* the lower and the higher of the two scores of pairing k
LowScore(ps, pairings, k) ==
    LET a == ScoreOfId(ps, pairings[k].player1Id)
        b == ScoreOfId(ps, pairings[k].player2Id)
    IN  IF a <= b THEN a ELSE b

HighScoreId(ps, pairings, k) ==
    IF ScoreOfId(ps, pairings[k].player1Id) >= ScoreOfId(ps, pairings[k].player2Id)
    THEN pairings[k].player1Id ELSE pairings[k].player2Id

\* the pairings of a round between players of different scores
MixedIn(ps, pairings) ==
    {k \in MatchesIn(pairings) :
        ScoreOfId(ps, pairings[k].player1Id) # ScoreOfId(ps, pairings[k].player2Id)}

\* the scores of the players seated in the matches of a round
ScoresIn(ps, pairings) ==
    {ScoreOfId(ps, pairings[k].player1Id) : k \in MatchesIn(pairings)}
        \cup {ScoreOfId(ps, pairings[k].player2Id) : k \in MatchesIn(pairings)}

\* a round paired by score group: the matches come group by group from the
\* highest score down (a match belongs to the group of its lower score), in
\* rating order inside a group and inside a match; each group holds at most
\* one match between different scores, whose higher-scored player is rated
\* no higher than any other player of that score who is seated in a match
PairedByScoreGroup(ps, pairings) ==
    /\ Cardinality(MixedIn(ps, pairings)) <= Cardinality(ScoresIn(ps, pairings)) - 1
    /\ \A sc \in ScoresIn(ps, pairings) :
         Cardinality({k \in MixedIn(ps, pairings) : LowScore(ps, pairings, k) = sc}) <= 1
    /\ \A k \in MatchesIn(pairings) :
         RatingOfId(ps, pairings[k].player1Id) >= RatingOfId(ps, pairings[k].player2Id)
    /\ \A j \in MatchesIn(pairings), k \in MatchesIn(pairings) :
         j < k =>
            \/ LowScore(ps, pairings, j) > LowScore(ps, pairings, k)
            \/ /\ LowScore(ps, pairings, j) = LowScore(ps, pairings, k)
               /\ RatingOfId(ps, pairings[j].player2Id)
                     >= RatingOfId(ps, pairings[k].player1Id)
    /\ \A k \in MixedIn(ps, pairings) :
         LET f == HighScoreId(ps, pairings, k)
         IN  \A id \in SeatedIds(SubSeq(pairings, 1, Cardinality(MatchesIn(pairings)))) :
                 ScoreOfId(ps, id) = ScoreOfId(ps, f) =>
                     RatingOfId(ps, id) >= RatingOfId(ps, f)

\* the part of a saved pairing that says who plays
Fixture(p) == <<p.player1Id, p.player2Id, p.bye>>

\* the step keeps every round of the ledger, its number and its fixtures
LedgerKept ==
    /\ Len(rounds') >= Len(rounds)
    /\ \A k \in 1..Len(rounds) :
         /\ rounds'[k].round = rounds[k].round
         /\ Len(rounds'[k].pairings) = Len(rounds[k].pairings)
         /\ \A j \in 1..Len(rounds[k].pairings) :
              Fixture(rounds'[k].pairings[j]) = Fixture(rounds[k].pairings[j])

\* the least r with n <= 2^r
CeilLog2(n) == CHOOSE r \in 0..n : n <= 2^r /\ \A q \in 0..n : n <= 2^q => r <= q

\* the Swiss and Round-Robin pairings of the ledger without a result
OpenRoundPairings ==
    {x \in LedgerPairings : ~PairingAt(x).knockout /\ ~PairingAt(x).resultRecorded}

\* recordRoundResult called for ledger pairing x with result, from registry
\* ps and ledger rs
RecordedAt(ps, rs, x, result) ==
    RoundResultAfter(ps, rs, rounds[x[1]].round, PairingAt(x).player1Id,
                     PairingAt(x).player2Id, result)

\* pairing x recorded with r1, then pairing y with r2, from the current state
RecordedInOrder(x, r1, y, r2) ==
    LET one == RecordedAt(players, rounds, x, r1)
        two == RecordedAt(one.players, one.rounds, y, r2)
    IN  [ok |-> one.ok /\ two.ok, players |-> two.players, rounds |-> two.rounds]

\* what a registry shows of the results: per player the score, the three
\* counters and the set of opponents
Tally(ps) ==
    [i \in 1..Len(ps) |->
        <<ps[i].score, ps[i].wins, ps[i].losses, ps[i].draws, Range(ps[i].opponents)>>]

\* generatePairings('round-robin') has been called until it failed
RRScheduleDone ==
    /\ Len(players) >= 2
    /\ ret.op = "generatePairings"
    /\ ret.err = "TournamentComplete"

\* the pairing a recorder call locates is already recorded
LocatedRecorded(Matches(_, _, _), round, player1Id, player2Id) ==
    LET ri == RoundIndex(rounds, round)
    IN  /\ ri # 0
        /\ LET pi == FindIndex(rounds[ri].pairings,
                               LAMBDA p : Matches(p, player1Id, player2Id))
           IN  pi # 0 /\ rounds[ri].pairings[pi].resultRecorded

ActiveIds == {players[activePlayers[i]].id : i \in 1..Len(activePlayers)}

EliminatedIds == {players[eliminatedPlayers[i]].id : i \in 1..Len(eliminatedPlayers)}

\* the ids p has faced in the recorded non-bye pairings of the ledger
FacedIds(id) ==
    {PairingAt(x).player2Id :
        x \in {y \in LedgerPairings : /\ PairingAt(y).resultRecorded
                                      /\ ~PairingAt(y).bye
                                      /\ PairingAt(y).player1Id = id}}
    \cup
    {PairingAt(x).player1Id :
        x \in {y \in LedgerPairings : /\ PairingAt(y).resultRecorded
                                      /\ ~PairingAt(y).bye
                                      /\ PairingAt(y).player2Id = id}}

\* some non-bye pairing of the last round of the ledger is unrecorded
LastRoundHasOpenMatch ==
    \E k \in 1..Len(rounds[Len(rounds)].pairings) :
        /\ ~rounds[Len(rounds)].pairings[k].bye
        /\ ~rounds[Len(rounds)].pairings[k].resultRecorded

\* generatePairings('knockout') called in this state raises ChampionDecided for w
ChampionPending(w) ==
    /\ Len(players) >= 2
    /\ currentRound > 0
    /\ areAllResultsRecorded(rounds, currentRound)
    /\ LET byes == processByeMatches(players, rounds, activePlayers)
           act == updateActivePlayersFromResults(byes.players, byes.rounds,
                                                 activePlayers, currentRound)
       IN  Len(act) = 1 /\ players[act[1]].id = w

----------------------------------------------------------------------------
\* Properties

\* C1: once the round-robin schedule of a fixed registry is exhausted, every
\* unordered pair of distinct players is in exactly one non-bye pairing.
C1_EveryPairExactlyOnce ==
    RRScheduleDone =>
        \A a \in RegisteredIds, b \in RegisteredIds :
            a # b => Cardinality(MeetingsOf(a, b)) = 1

\* C2: once the round-robin schedule of an odd registry is exhausted, every
\* player, the first-registered one included, has had exactly one bye.
C2_EveryPlayerOneBye ==
    (RRScheduleDone /\ Len(players) % 2 = 1) =>
        \A a \in RegisteredIds : Cardinality(ByesOf(a)) = 1

\* C3: recordRoundResult on a pairing (bye or not) that is already recorded
\* returns failure and leaves players and ledger as they were: a step that
\* succeeds or changes the state is no such call, whatever the result given.
C3_RoundRerecordRejected ==
    [][\/ (~ret'.ok /\ UNCHANGED state)
       \/ \A args \in {a \in RecordArgs :
                          LocatedRecorded(RoundPairingMatches, a[1], a[2], a[3])} :
              \A result \in Results :
                  ~recordRoundResult(args[1], args[2], args[3], result)]_vars

\* a recorded bye and a recorded match exist, and a re-report was rejected
C3_Witness ==
    /\ ret.op = "recordRoundResult"
    /\ ret.err = "AlreadyRecorded"
    /\ \E x \in LedgerPairings : PairingAt(x).bye /\ PairingAt(x).resultRecorded
    /\ \E x \in LedgerPairings : ~PairingAt(x).bye /\ PairingAt(x).resultRecorded

\* C4: recordKnockoutResult on a pairing that is already recorded fails and
\* changes nothing, whoever the second call names as winner: a step that
\* succeeds or changes the state is no such call.
C4_KnockoutRerecordRejected ==
    [][\/ (~ret'.ok /\ UNCHANGED state)
       \/ \A args \in {a \in RecordArgs :
                          LocatedRecorded(KnockoutPairingMatches, a[1], a[2], a[3])} :
              \A w \in KOIds :
                  ~recordKnockoutResult(args[1], args[2], args[3], w)]_vars

\* C5: in Knockout, activePlayers and eliminatedPlayers are disjoint, cover
\* the registry, and their sizes add up to the number of players.
C5_ActiveEliminatedPartition ==
    /\ ActiveIds \cap EliminatedIds = {}
    /\ ActiveIds \cup EliminatedIds = RegisteredIds
    /\ Len(activePlayers) + Len(eliminatedPlayers) = Len(players)

\* C6: a generatePairings call that raises an error leaves players, ledger,
\* currentRound, activePlayers and eliminatedPlayers as they were.
C6_FailedGenerateChangesNothing ==
    [][(ret'.op = "generatePairings" /\ ~ret'.ok) => UNCHANGED state]_vars

\* C7: for every recorded non-bye pairing (A, B), whichever recorder
\* recorded it, A's opponents contain B and B's opponents contain A.
C7_RecordedOpponentsMutual ==
    \A x \in LedgerPairings :
        (PairingAt(x).resultRecorded /\ ~PairingAt(x).bye) =>
            LET a == PairingAt(x).player1Id
                b == PairingAt(x).player2Id
            IN  /\ b \in Range(players[PlayerIndex(players, a)].opponents)
                /\ a \in Range(players[PlayerIndex(players, b)].opponents)

C9_IncompleteRoundIffOpenMatch ==
    [][(generatePairings("knockout") /\ Len(rounds) >= 1 /\ Len(players) >= 2)
          => (ret'.err = "IncompleteRound" <=> LastRoundHasOpenMatch)]_vars

\* round 2 was generated over a round 1 that had a bye, and a later request
\* was refused because a match of the last round is open
C9_Witness ==
    /\ ret.op = "generatePairings"
    /\ ret.err = "IncompleteRound"
    /\ Len(rounds) >= 2
    /\ \E k \in 1..Len(rounds[1].pairings) : rounds[1].pairings[k].bye

\* C10: ChampionDecided appends no round and is terminal: once a call would
\* raise it for w, it keeps doing so for w until reset or clear.
C10_ChampionTerminal ==
    [][/\ (ret'.op = "generatePairings" /\ ret'.err = "ChampionDecided")
            => (rounds' = rounds /\ currentRound' = currentRound)
       /\ \A w \in KOIds :
            (ChampionPending(w) /\ ret'.op \notin {"resetTournament", "clearPlayers"})
            => ChampionPending(w)']_vars

\* C11: over a fixed registry of n >= 2 players, generatePairings('round-robin')
\* succeeds (appending one round) while fewer than n rounds (n odd) or n - 1
\* rounds (n even) were generated, and from then on fails with
\* TournamentComplete and appends nothing; the ledger never grows past that.
C11_RoundRobinRoundCount ==
    [][(ret'.op = "generatePairings" /\ Len(players) >= 2) =>
          LET n == Len(players)
              succeeded == Len(rounds)
          IN  /\ Len(players') = n
              /\ IF succeeded < (IF n % 2 = 1 THEN n ELSE n - 1)
                 THEN ret'.ok /\ Len(rounds') = succeeded + 1
                 ELSE /\ ~ret'.ok
                      /\ ret'.err = "TournamentComplete"
                      /\ Len(rounds') = succeeded]_vars

\* an odd registry was scheduled n times and the next call was refused
C11_Witness ==
    /\ Len(players) >= 3
    /\ Len(players) % 2 = 1
    /\ Len(rounds) = Len(players)
    /\ ret.op = "generatePairings"
    /\ ret.err = "TournamentComplete"

C13_EmptyRegisterChangesNothing ==
    [][(ret'.op = "addPlayers" /\ ret'.count = 0) => UNCHANGED state]_vars

\* C14: in a Swiss tournament over a fixed odd registry, the bye of a round
\* >= 2 goes to a player without a bye so far than whom no such player is
\* lower in (score descending, rating descending) order, and when everyone
\* has had a bye to a player than whom nobody is lower; and no player has a
\* second bye within the first n rounds.
C14_SwissByeOrder ==
    [][(ret'.op = "generatePairings" /\ ret'.ok /\ Len(players) % 2 = 1) =>
          LET last == rounds'[Len(rounds')].pairings
              byes == {k \in 1..Len(last) : last[k].bye}
              unbyed == {i \in 1..Len(players) : ByesOf(players[i].id) = {}}
              Lower(b, p) ==
                  \/ players[b].score > players[p].score
                  \/ /\ players[b].score = players[p].score
                     /\ players[b].rating > players[p].rating
          IN  /\ Cardinality(byes) = 1
              /\ currentRound >= 1 =>
                    \A k \in byes :
                        LET b == PlayerIndex(players, last[k].player1Id)
                        IN  IF unbyed # {}
                            THEN b \in unbyed /\ \A p \in unbyed : ~Lower(b, p)
                            ELSE \A p \in 1..Len(players) : ~Lower(b, p)
              /\ Len(rounds') <= Len(players) =>
                    \A i \in 1..Len(players) :
                        Cardinality(ByesOf(players[i].id)') <= 1]_vars

\* results were recorded, three players have had a bye each and the fourth
\* round gave a second one
C14_Witness ==
    /\ Len(players) = 3
    /\ \E i \in 1..Len(players) : players[i].score > 0
    /\ Len(rounds) > Len(players)
    /\ \A a \in RegisteredIds : Cardinality(ByesOf(a)) >= 1
    /\ \E a \in RegisteredIds : Cardinality(ByesOf(a)) = 2

\* C15: Swiss round 1 seats all players by rating descending, equal ratings
\* in registration order, pairs the seats consecutively (1st vs 2nd, 3rd vs
\* 4th, ...) and gives the bye to the last seat exactly when the count is odd.
C15_SwissRound1Seeding ==
    [][(currentRound = 0 /\ ret'.op = "generatePairings" /\ ret'.ok) =>
          LET n == Len(players)
              pairings == rounds'[1].pairings
              reg(i) == PlayerIndex(players, SeatOf(pairings, i))
          IN  /\ Len(rounds') = 1
              /\ Len(pairings) = (n + 1) \div 2
              /\ \A k \in 1..Len(pairings) :
                    /\ pairings[k].bye <=> (n % 2 = 1 /\ k = Len(pairings))
                    /\ pairings[k].bye <=> pairings[k].player2Id = NULL
              /\ \A i \in 1..n : reg(i) # 0
              /\ \A i \in 1..n, j \in 1..n :
                    i < j => \/ players[reg(i)].rating > players[reg(j)].rating
                             \/ /\ players[reg(i)].rating = players[reg(j)].rating
                                /\ reg(i) < reg(j)]_vars

\* ratings 2000, 1800, 1600, 1400 entered in another order are paired
\* (2000 v 1800), (1600 v 1400) without a bye
C15_Witness ==
    /\ Len(players) = 4
    /\ players[1].rating = 1600
    /\ Len(rounds) = 1
    /\ Len(rounds[1].pairings) = 2
    /\ SeatRatings(players, rounds[1].pairings, 4) = <<2000, 1800, 1600, 1400>>
    /\ \A k \in 1..2 : ~rounds[1].pairings[k].bye

\* C16: every Knockout round seats exactly the active players, each once, by
\* rating descending, pairs the seats consecutively (1st vs 2nd, 3rd vs
\* 4th, ...) and gives the bye to the last, lowest-rated seat exactly when
\* their count is odd; this holds for the first round and every later one.
C16_KnockoutSeeding ==
    [][(ret'.op = "generatePairings" /\ ret'.ok /\ pairingSystem' = "knockout") =>
          LET n == Len(activePlayers')
              pairings == rounds'[Len(rounds')].pairings
              seats == {SeatOf(pairings, i) : i \in 1..n}
              ratings == SeatRatings(players', pairings, n)
          IN  /\ Len(rounds') = Len(rounds) + 1
              /\ Len(pairings) = (n + 1) \div 2
              /\ \A k \in 1..Len(pairings) :
                    /\ pairings[k].bye <=> (n % 2 = 1 /\ k = Len(pairings))
                    /\ pairings[k].bye <=> pairings[k].player2Id = NULL
                    /\ pairings[k].knockout
              /\ seats = ActiveIds'
              /\ Cardinality(seats) = n
              /\ \A i \in 1..n, j \in 1..n : i < j => ratings[i] >= ratings[j]]_vars

\* ratings 2200, 2000, 1800, 1600, 1400 entered in another order were paired
\* (2200 v 2000), (1800 v 1600) with the bye to 1400, and the three players
\* left were seeded again in round 2
C16_Witness ==
    /\ Len(players) = 5
    /\ players[1].rating = 1400
    /\ Len(rounds) = 2
    /\ SeatRatings(players, rounds[1].pairings, 5) = <<2200, 2000, 1800, 1600, 1400>>
    /\ rounds[1].pairings[3].bye
    /\ Len(rounds[2].pairings) = 2
    /\ rounds[2].pairings[2].bye

\* C17: standings(sortKey), for every key and in every state, returns each
\* registered player exactly once as a copy of its stored fields, with ranks
\* 1..n in list order, and leaves the registry and the rest of the state
\* unchanged.
C17_StandingsPermutation ==
    [][ret'.op = "getStandings" =>
          LET st == ret'.standings
              Stored(row) == [f \in DOMAIN row \ {"rank"} |-> row[f]]
          IN  /\ UNCHANGED state
              /\ Len(st) = Len(players)
              /\ \A i \in 1..Len(st) : st[i].rank = i
              /\ \A j \in 1..Len(players) :
                    Cardinality({i \in 1..Len(st) : Stored(st[i]) = players[j]})
                        = Cardinality({k \in 1..Len(players) : players[k] = players[j]})]_vars

\* standings by name of three players with results, entered out of name order
C17_Witness ==
    /\ ret.op = "getStandings"
    /\ ret.sortBy = "name"
    /\ Len(players) = 3
    /\ \E i \in 1..Len(players) : players[i].score > 0
    /\ \E i \in 1..Len(players) : ret.standings[i].id # players[i].id

\* C18: standings('score') is by score descending, then rating descending;
\* standings('rating') by rating descending; standings('name') by id
\* ascending; players equal on the keys of the order are in registration order.
C18_StandingsOrder ==
    (ret.op = "getStandings" /\ ret.sortBy \in {"score", "name", "rating"}) =>
        LET st == ret.standings
            reg(i) == PlayerIndex(players, st[i].id)
        IN  \A i \in 1..Len(st), j \in 1..Len(st) :
                i < j =>
                    IF ret.sortBy = "score"
                    THEN \/ st[i].score > st[j].score
                         \/ st[i].score = st[j].score /\ st[i].rating > st[j].rating
                         \/ /\ st[i].score = st[j].score
                            /\ st[i].rating = st[j].rating
                            /\ reg(i) < reg(j)
                    ELSE IF ret.sortBy = "rating"
                    THEN \/ st[i].rating > st[j].rating
                         \/ st[i].rating = st[j].rating /\ reg(i) < reg(j)
                    ELSE LocaleBefore(st[i].id, st[j].id)

\* standings by score where two players tie on score and the later
\* registered one has the higher rating, so the rating decides
C18_Witness ==
    /\ ret.op = "getStandings"
    /\ ret.sortBy = "score"
    /\ \E i \in 1..Len(players), j \in 1..Len(players) :
          /\ i < j
          /\ players[i].score = players[j].score
          /\ players[i].score > 0
          /\ players[i].rating < players[j].rating

\* C19: reset() leaves the state that registering the same players, with the
\* same ratings and in the same order, gives in a fresh tournament: empty
\* ledger, round 0, nobody eliminated, everybody active, every player with
\* score 0, no wins, losses, draws or opponents, bye and eliminated false.
C19_ResetIsFreshRegistration ==
    [][ret'.op = "resetTournament" =>
          /\ state' = FreshlyRegistered(players)
          /\ Len(players') = Len(players)
          /\ rounds' = <<>> /\ currentRound' = 0 /\ eliminatedPlayers' = <<>>
          /\ Len(activePlayers') = Len(players)
          /\ \A i \in 1..Len(players) :
                /\ players'[i].id = players[i].id
                /\ players'[i].rating = players[i].rating
                /\ players'[i].score = 0
                /\ players'[i].wins = 0 /\ players'[i].losses = 0 /\ players'[i].draws = 0
                /\ players'[i].opponents = <<>>
                /\ ~players'[i].bye /\ ~players'[i].eliminated
                /\ activePlayers'[i] = i]_vars

\* a three-player tournament that had run as a Knockout was reset
C19_Witness ==
    /\ ret.op = "resetTournament"
    /\ pairingSystem = "knockout"
    /\ Len(players) = 3
    /\ \E i \in 1..Len(players) : players[i].rating # DefaultRating

\* C20: recordRoundResult and recordKnockoutResult return failure and change
\* nothing when the round is not in the ledger or none of its pairings has
\* the two ids in the given order: a step that succeeds or changes the state
\* is no such call, whatever result or winner it reports.
C20_UnknownPairingRejected ==
    [][\/ (~ret'.ok /\ UNCHANGED state)
       \/ \A args \in {a \in ProbeArgs : NoSuchPairing(a[1], a[2], a[3])} :
              /\ \A result \in Results :
                    ~recordRoundResult(args[1], args[2], args[3], result)
              /\ \A w \in KOIds :
                    ~recordKnockoutResult(args[1], args[2], args[3], w)]_vars

\* with recorded results in the ledger, a recorder was given a round the
\* ledger lacks, or ids no pairing of the round has in that order
C20_Witness ==
    /\ ret.op \in {"recordRoundResult", "recordKnockoutResult"}
    /\ ret.err = "PairingNotFound"
    /\ \E x \in LedgerPairings : PairingAt(x).resultRecorded
    /\ \E x \in LedgerPairings : PairingAt(x).bye

\* C21: when generatePairings('knockout') produces round N+1 (N >= 1), the
\* active players are exactly the players recorded as winnerId of a pairing
\* of round N, byes included.
C21_ActiveAreLastRoundWinners ==
    [][(ret'.op = "generatePairings" /\ ret'.ok /\ pairingSystem' = "knockout"
            /\ currentRound >= 1) =>
          ActiveIds' = WinnerIdsOfRound(rounds', currentRound) \cap RegisteredIds]_vars

\* C22: a Knockout bye is worth exactly one win and one point to its
\* recipient, however it is resolved: every bye of a round before the last
\* is resolved in favour of its recipient, and a player none of whose matches
\* is recorded has one win and one point per resolved bye and is not
\* eliminated.
C22_ByeCreditedOnce ==
    /\ \A x \in LedgerPairings :
          (PairingAt(x).bye /\ x[1] < Len(rounds)) =>
              PairingAt(x).resultRecorded /\ PairingAt(x).winnerId = PairingAt(x).player1Id
    /\ \A i \in 1..Len(players) :
          RecordedMatchesOf(players[i].id) = {} =>
              /\ players[i].wins = Cardinality(ResolvedByesOf(players[i].id))
              /\ players[i].score = Point * Cardinality(ResolvedByesOf(players[i].id))
              /\ ~players[i].eliminated
              /\ players[i].id \notin EliminatedIds

\* C23: a successful recordKnockoutResult on a non-bye pairing, naming one of
\* its players as winner, gives the winner one more win and one more point,
\* marks the other player eliminated, takes it out of activePlayers, appends
\* it once to eliminatedPlayers and changes no player outside the pairing.
C23_KnockoutResultEffect ==
    [][(ret'.op = "recordKnockoutResult" /\ ret'.ok) =>
          \A args \in {a \in LedgerArgs : a[3] # NULL} : \A w \in {args[2], args[3]} :
              recordKnockoutResult(args[1], args[2], args[3], w) =>
                  LET wi == PlayerIndex(players, w)
                      li == PlayerIndex(players, IF w = args[2] THEN args[3] ELSE args[2])
                  IN  /\ players'[wi].wins = players[wi].wins + 1
                      /\ players'[wi].score = players[wi].score + Point
                      /\ players'[li].eliminated
                      /\ li \notin Range(activePlayers')
                      /\ activePlayers' = SelectSeq(activePlayers, LAMBDA ref : ref # li)
                      /\ eliminatedPlayers' = Append(eliminatedPlayers, li)
                      /\ \A i \in 1..Len(players) :
                            i \notin {wi, li} => players'[i] = players[i]]_vars


\* C24: every generated round seats each player it covers exactly once: no
\* player is in two pairings or on both sides of one; a Swiss or Round-Robin
\* round covers every registered player, a Knockout round the active players;
\* the round has one bye pairing, placed last, exactly when it covers an odd
\* number of players
C24_RoundSeatsEachPlayerOnce ==
    [][(ret'.op = "generatePairings" /\ ret'.ok) =>
          /\ Len(rounds') = Len(rounds) + 1
          /\ IF pairingSystem' = "knockout"
             THEN RoundSeatsOnce(rounds'[Len(rounds')].pairings,
                                 [i \in 1..Len(activePlayers') |->
                                     players'[activePlayers'[i]].id])
             ELSE RoundSeatsOnce(rounds'[Len(rounds')].pairings,
                                 [i \in 1..Len(players') |-> players'[i].id])]_vars


\* C25: a Swiss round after the first pairs the players, the bye recipient
\* set aside, inside their score group in rating order; only the lowest-rated
\* leftover of an odd group floats to the next lower group, so every match
\* joins two equal scores except at most one per score group below the top
\* and the matches between different scores number at most the distinct
\* scores minus 1; with ratings 2000, 1800, 1600, 1400 and round 1 won by the
\* 2000 and the 1600, round 2 is 2000 v 1600, 1800 v 1400
C25_SwissPairsInsideScoreGroups ==
    [][(ret'.op = "generatePairings" /\ ret'.ok /\ pairingSystem' = "swiss"
            /\ currentRound >= 1) =>
          LET pairings == rounds'[Len(rounds')].pairings
          IN  /\ PairedByScoreGroup(players, pairings)
              /\ (/\ Len(players) = 4
                  /\ currentRound = 1
                  /\ ScoreOfId(players, Id("A")) = Point
                  /\ ScoreOfId(players, Id("C")) = Point
                  /\ ScoreOfId(players, Id("B")) = 0
                  /\ ScoreOfId(players, Id("D")) = 0)
                 => /\ Len(pairings) = 2
                    /\ <<pairings[1].player1Id, pairings[1].player2Id>> = <<Id("A"), Id("C")>>
                    /\ <<pairings[2].player1Id, pairings[2].player2Id>> = <<Id("B"), Id("D")>>]_vars

\* round 2 of the four-player example: A (2000) and C (1600) won round 1
C25_Witness ==
    /\ ret.op = "generatePairings" /\ ret.ok
    /\ pairingSystem = "swiss"
    /\ Len(players) = 4
    /\ Len(rounds) = 2
    /\ RatingOfId(players, Id("A")) = 2000 /\ RatingOfId(players, Id("C")) = 1600
    /\ RatingOfId(players, Id("B")) = 1800 /\ RatingOfId(players, Id("D")) = 1400
    /\ rounds[1].pairings[1].result = "1-0"
    /\ rounds[1].pairings[2].result = "1-0"
    /\ <<rounds[2].pairings[1].player1Id, rounds[2].pairings[1].player2Id>> = <<Id("A"), Id("C")>>
    /\ <<rounds[2].pairings[2].player1Id, rounds[2].pairings[2].player2Id>> = <<Id("B"), Id("D")>>

\* a second Swiss round in which two players float: three score groups of
\* one, two and one players
C25_FloatReached ==
    /\ ret.op = "generatePairings" /\ ret.ok
    /\ pairingSystem = "swiss"
    /\ Len(rounds) = 2
    /\ Cardinality(MixedIn(players, rounds[2].pairings)) = 2

\* C26: currentRound is the number of rounds in the ledger and the k-th entry
\* has round number k; a successful generatePairings appends exactly one
\* round, all of whose pairings are unrecorded; generatePairings and the two
\* record operations never change who plays in a round already generated
\* (player1Id, player2Id, bye) nor add a round otherwise
C26_LedgerAppendOnly ==
    /\ [](/\ currentRound = Len(rounds)
          /\ \A k \in 1..Len(rounds) : rounds[k].round = k)
    /\ [][ret'.op \in {"generatePairings", "recordRoundResult", "recordKnockoutResult"} =>
            /\ LedgerKept
            /\ IF ret'.op = "generatePairings" /\ ret'.ok
               THEN /\ Len(rounds') = Len(rounds) + 1
                    /\ \A j \in 1..Len(rounds'[Len(rounds')].pairings) :
                         LET p == rounds'[Len(rounds')].pairings[j]
                         IN  ~p.resultRecorded /\ p.result = NoResult /\ p.winnerId = NULL
               ELSE Len(rounds') = Len(rounds)]_vars

\* a second round generated after a result of round 1 was recorded
C26_Witness ==
    /\ ret.op = "generatePairings" /\ ret.ok
    /\ Len(rounds) = 2
    /\ \E j \in 1..Len(rounds[1].pairings) :
         rounds[1].pairings[j].resultRecorded /\ ~rounds[1].pairings[j].bye
    /\ \A j \in 1..Len(rounds[2].pairings) : ~rounds[2].pairings[j].resultRecorded

\* C27: a successful recordRoundResult on a non-bye pairing adds the first
\* component of the result to player1's score and the second to player2's,
\* increments exactly one counter of each of the two (wins and losses for a
\* decisive result, draws for both otherwise), stores the result string on
\* the pairing and changes no other player; on a bye pairing it gives the
\* recipient one point and one win and changes no opponents collection
C27_RoundResultEffect ==
    [][(ret'.op = "recordRoundResult" /\ ret'.ok) =>
          \A args \in LedgerArgs, result \in Results :
              recordRoundResult(args[1], args[2], args[3], result) =>
                  LET ri == RoundIndex(rounds, args[1])
                      pi == FindIndex(rounds[ri].pairings,
                                      LAMBDA p : RoundPairingMatches(p, args[2], args[3]))
                      one == PlayerIndex(players, args[2])
                      two == PlayerIndex(players, args[3])
                      first == IF result = "1-0" THEN Point
                               ELSE IF result = "0-1" THEN 0 ELSE HalfPoint
                      second == Point - first
                      Counters(p) == <<p.wins, p.losses, p.draws>>
                      Bump(p, w, l, d) == <<p.wins + w, p.losses + l, p.draws + d>>
                  IN  IF rounds[ri].pairings[pi].bye
                      THEN /\ players'[one].score = players[one].score + Point
                           /\ Counters(players'[one]) = Bump(players[one], 1, 0, 0)
                           /\ \A i \in 1..Len(players) :
                                /\ players'[i].opponents = players[i].opponents
                                /\ i # one => players'[i] = players[i]
                           /\ rounds'[ri].pairings[pi].resultRecorded
                      ELSE /\ players'[one].score = players[one].score + first
                           /\ players'[two].score = players[two].score + second
                           /\ Counters(players'[one]) =
                                 IF result = "1-0" THEN Bump(players[one], 1, 0, 0)
                                 ELSE IF result = "0-1" THEN Bump(players[one], 0, 1, 0)
                                 ELSE Bump(players[one], 0, 0, 1)
                           /\ Counters(players'[two]) =
                                 IF result = "1-0" THEN Bump(players[two], 0, 1, 0)
                                 ELSE IF result = "0-1" THEN Bump(players[two], 1, 0, 0)
                                 ELSE Bump(players[two], 0, 0, 1)
                           /\ rounds'[ri].pairings[pi].resultRecorded
                           /\ rounds'[ri].pairings[pi].result = result
                           /\ \A i \in 1..Len(players) :
                                i \notin {one, two} => players'[i] = players[i]]_vars

\* C28: in a Knockout tournament over a fixed registry of n >= 2 players
\* whose matches are each recorded once, with one of their two players as
\* winner, a round over k active players leaves ceil(k/2) of them, fewer
\* than k; generatePairings('knockout') raises the champion error after
\* exactly ceil(log2 n) generated rounds, and never the empty-bracket error
C28_BracketHalvesToChampion ==
    /\ [](ret.err # "EmptyBracket")
    /\ [][(/\ ret'.op = "generatePairings"
            /\ pairingSystem' = "knockout"
            /\ currentRound >= 1
            /\ ret'.err \notin {"IncompleteRound", "InsufficientPlayers"}) =>
              LET k == SeatCount(rounds[Len(rounds)].pairings)
              IN  /\ Len(activePlayers') = (k + 1) \div 2
                  /\ Len(activePlayers') < k
                  /\ ret'.ok \/ ret'.err = "ChampionDecided"
                  /\ ret'.err = "ChampionDecided" <=> Len(rounds) = CeilLog2(Len(players))]_vars

\* C29: a player whose eliminated flag is set is not seated in a Knockout
\* round generated afterwards
C29_EliminatedNeverSeated ==
    [][(ret'.op = "generatePairings" /\ ret'.ok /\ pairingSystem' = "knockout") =>
          \A i \in 1..Len(players) :
              players[i].eliminated =>
                  players[i].id \notin SeatedIds(rounds'[Len(rounds')].pairings)]_vars

\* C30: every recorded knockout pairing has as winnerId one of its own
\* players, the bye recipient for a bye
C30_WinnerIsOwnPlayer ==
    \A x \in LedgerPairings :
        (PairingAt(x).knockout /\ PairingAt(x).resultRecorded) =>
            PairingAt(x).winnerId \in {PairingAt(x).player1Id, PairingAt(x).player2Id} \ {NULL}

\* C31: for every player the score is the wins plus half the draws (in
\* half-points: Point per win, HalfPoint per draw), whatever rounds, byes and
\* results have been recorded
C31_ScoreIsWinsPlusHalfDraws ==
    \A i \in 1..Len(players) :
        players[i].score = Point * players[i].wins + HalfPoint * players[i].draws

\* a player with a win and a draw, in a ledger holding a drawn Swiss or
\* Round-Robin match, a recorded bye and a recorded Knockout match
C31_Witness ==
    /\ \E i \in 1..Len(players) : players[i].wins >= 1 /\ players[i].draws >= 1
    /\ \E x \in LedgerPairings :
         ~PairingAt(x).knockout /\ ~PairingAt(x).bye /\ PairingAt(x).result = "0.5-0.5"
    /\ \E x \in LedgerPairings :
         ~PairingAt(x).knockout /\ PairingAt(x).bye /\ PairingAt(x).resultRecorded
    /\ \E x \in LedgerPairings :
         PairingAt(x).knockout /\ ~PairingAt(x).bye /\ PairingAt(x).resultRecorded

\* C32: the results of two different unrecorded pairings of Swiss or
\* Round-Robin rounds, of the same or of different rounds, can be recorded in
\* either order: both calls succeed both ways, and the two orders leave the
\* same scores, counters, opponents sets and ledger
C32_RoundResultsCommute ==
    \A x \in OpenRoundPairings, y \in OpenRoundPairings :
        x # y =>
            \A r1 \in Results, r2 \in Results :
                LET xy == RecordedInOrder(x, r1, y, r2)
                    yx == RecordedInOrder(y, r2, x, r1)
                IN  /\ xy.ok /\ yx.ok
                    /\ Tally(xy.players) = Tally(yx.players)
                    /\ xy.rounds = yx.rounds

\* two open matches of different rounds that share a player, and an open bye
C32_Witness ==
    /\ Len(rounds) = 2
    /\ \E x \in OpenRoundPairings, y \in OpenRoundPairings :
         /\ x[1] = 1 /\ y[1] = 2
         /\ ~PairingAt(x).bye /\ ~PairingAt(y).bye
         /\ PairingAt(x).player1Id \in {PairingAt(y).player1Id, PairingAt(y).player2Id}
    /\ \E z \in OpenRoundPairings : PairingAt(z).bye


====
